---- MODULE Spec2Model ----
(***************************************************************************)
(* DGP v1.0 evaluation kernel: the four validators (HeaderChecker,         *)
(* DriftDetector, EscalationDetector, RetryPressure) and GovernanceEngine  *)
(* (constructor, evaluate and its private helpers).                        *)
(*                                                                         *)
(* Representation.                                                         *)
(*  - A JavaScript string is a sequence of words; the string it stands for *)
(*    is the words joined by single spaces ("" is << >>).  The vocabulary  *)
(*    is chosen so that no word, lower-cased, is a substring of another    *)
(*    word, so that substring search on the string is sub-sequence search  *)
(*    on the words, and every word is delimited by word boundaries.        *)
(*  - A value that may be undefined/null is a sequence of length <= 1:     *)
(*    None is << >>, Some(v) is <<v>>.                                     *)
(*  - A value passed where a string is expected is Str(ws) or NotAString.  *)
(*  - Fractions are kept as integers: weights in thousandths, coverage,    *)
(*    normalized and confidence in hundredths.  Arithmetic is exact.       *)
(***************************************************************************)
EXTENDS Integers, Sequences, FiniteSets, TLC

None == << >>
Some(v) == <<v>>
IsSome(m) == Len(m) > 0
Val(m) == m[1]

Str(ws) == [str |-> ws]
NotAString == [num |-> 123]
IsString(v) == DOMAIN v = {"str"}

Min2(a, b) == IF a <= b THEN a ELSE b
Max2(a, b) == IF a >= b THEN a ELSE b

\* Math.round(n / d) for d > 0: half rounds towards +Infinity.
RoundDiv(n, d) == (2 * n + d) \div (2 * d)

\* Math.floor(n / d) for d > 0.
FloorDiv(n, d) == n \div d

RECURSIVE SeqSum(_)
SeqSum(s) == IF s = << >> THEN 0 ELSE Head(s) + SeqSum(Tail(s))

\* [...new Set(s)]: the first occurrence of each element, in order.
RECURSIVE Dedupe(_)
Dedupe(s) ==
  IF s = << >> THEN << >>
  ELSE LET front == Dedupe(SubSeq(s, 1, Len(s) - 1))
           last == s[Len(s)]
       IN IF \E i \in 1..Len(front) : front[i] = last THEN front
          ELSE Append(front, last)

RECURSIVE Flatten(_)
Flatten(ss) == IF ss = << >> THEN << >> ELSE Head(ss) \o Flatten(Tail(ss))

\* Array.prototype.sort on a sequence of <<key, value>> pairs, ascending by
\* key: a stable insertion sort.
RECURSIVE SortByKey(_)
SortByKey(s) ==
  IF s = << >> THEN << >>
  ELSE LET front == SortByKey(SubSeq(s, 1, Len(s) - 1))
           last == s[Len(s)]
           k == Cardinality({i \in 1..Len(front) : front[i][1] <= last[1]})
       IN SubSeq(front, 1, k) \o <<last>> \o SubSeq(front, k + 1, Len(front))

(***************************************************************************)
(* Strings                                                                 *)
(***************************************************************************)

\* String.prototype.toLowerCase on one word.
LowerWord(w) ==
  CASE w = "Plan" -> "plan"
    [] w = "Gates" -> "gates"
    [] w = "FOP" -> "fop"
    [] w = "TODO" -> "todo"
    [] w = "TBD" -> "tbd"
    [] w = "FIXME" -> "fixme"
    [] OTHER -> w

ToLowerCase(ws) == [i \in 1..Len(ws) |-> LowerWord(ws[i])]

\* Number of UTF-16 code units of a word.
WordLength(w) ==
  CASE w \in {"FOP", "TBD", "tbd", "fop"} -> 3
    [] w \in {"Plan", "plan", "TODO", "todo"} -> 4
    [] w \in {"Gates", "gates", "FIXME", "fixme", "maybe"} -> 5
    [] w \in {"deploy"} -> 6
    [] w \in {"unclear", "approve"} -> 7
    [] OTHER -> 1

\* Index of the first code unit of word i of the string (0-based).
CharIndex(ws, i) == SeqSum([j \in 1..(i - 1) |-> WordLength(ws[j]) + 1])

\* needle occurs in hay starting at word i.
OccursAt(hay, needle, i) ==
  /\ i + Len(needle) - 1 <= Len(hay)
  /\ \A j \in 1..Len(needle) : hay[i + j - 1] = needle[j]

\* The word indices at which needle (not empty) starts in hay.
Occurrences(hay, needle) == {i \in 1..Len(hay) : OccursAt(hay, needle, i)}

\* String.prototype.includes.
Includes(hay, needle) == needle = << >> \/ Occurrences(hay, needle) # {}

\* s as the ascending sequence of its elements (s a finite set of integers).
RECURSIVE Ascending(_)
Ascending(s) ==
  IF s = {} THEN << >>
  ELSE LET m == CHOOSE x \in s : \A y \in s : x <= y
       IN <<m>> \o Ascending(s \ {m})

(***************************************************************************)
(* HeaderChecker                                                           *)
(***************************************************************************)

\* new RegExp(`${escapeRegex(header)}\\s*:`, 'i').test(searchText): the header
\* followed by a colon, compared case-insensitively.
HeaderPatternTest(searchText, header) ==
  Includes(ToLowerCase(searchText), ToLowerCase(header) \o <<":">>)

HeaderFound(output, header, caseSensitive) ==
  LET searchText == IF caseSensitive THEN output ELSE ToLowerCase(output)
      h == IF caseSensitive THEN header ELSE ToLowerCase(header)
  IN Includes(searchText, h) \/ HeaderPatternTest(searchText, h)

\* validate with the coverage rounded down.
HeaderValidateFloorCoverage(required, strict, caseSensitive, output) ==
  LET IsFound(h) == HeaderFound(output, h, caseSensitive)
      IsMissing(h) == ~HeaderFound(output, h, caseSensitive)
      found == SelectSeq(required, IsFound)
      missing == SelectSeq(required, IsMissing)
      coverage == IF Len(required) > 0
                  THEN FloorDiv(Len(found) * 100, Len(required))
                  ELSE 100
  IN [compliant |-> IF strict THEN Len(missing) = 0 ELSE Len(found) > 0,
      missing |-> missing,
      found |-> found,
      coverage |-> coverage]

\* HeaderChecker.validate of a checker built with {required, strict,
\* caseSensitive}.
HeaderValidate(required, strict, caseSensitive, output) ==
  LET IsFound(h) == HeaderFound(output, h, caseSensitive)
      IsMissing(h) == ~HeaderFound(output, h, caseSensitive)
      found == SelectSeq(required, IsFound)
      missing == SelectSeq(required, IsMissing)
      coverage == IF Len(required) > 0
                  THEN RoundDiv(Len(found) * 100, Len(required))
                  ELSE 100
  IN [compliant |-> IF strict THEN Len(missing) = 0 ELSE Len(found) > 0,
      missing |-> missing,
      found |-> found,
      coverage |-> coverage]

(***************************************************************************)
(* DriftDetector                                                           *)
(***************************************************************************)

\* DriftDetector constructor: this.keywords.
DriftKeywords(keywords, caseSensitive) ==
  IF caseSensitive THEN keywords
  ELSE [i \in 1..Len(keywords) |-> ToLowerCase(keywords[i])]

\* The while loop of detect for one keyword: every start position of the
\* keyword, found by indexOf from the previous start plus one.
DriftKeywordHits(output, keyword, caseSensitive) ==
  LET searchText == IF caseSensitive THEN output ELSE ToLowerCase(output)
      searchKeyword == IF caseSensitive THEN keyword ELSE ToLowerCase(keyword)
      at == Ascending(Occurrences(searchText, searchKeyword))
  IN [i \in 1..Len(at) |-> [keyword |-> keyword, index |-> CharIndex(output, at[i])]]

\* DriftDetector.detect(output, options) of a detector whose constructor got
\* keywords and caseSensitive, and patterns = []; lexicon is options.lexicon.
DriftDetect(keywords, caseSensitive, output, lexicon) ==
  LET activeLexicon ==
        IF IsSome(lexicon)
        THEN (IF caseSensitive THEN Val(lexicon)
              ELSE [i \in 1..Len(Val(lexicon)) |-> ToLowerCase(Val(lexicon)[i])])
        ELSE DriftKeywords(keywords, caseSensitive)
      hits == Flatten([k \in 1..Len(activeLexicon) |->
                         DriftKeywordHits(output, activeLexicon[k], caseSensitive)])
      matches == [i \in 1..Len(hits) |-> hits[i].keyword]
  IN [count |-> Len(matches),
      matches |-> Dedupe(matches),
      positions |-> [i \in 1..Len(hits) |-> hits[i].index]]

\* The reduction with the percentage rounded down instead of to the nearest
\* integer.
ComputeReductionFloor(baseline, governed) ==
  IF baseline = 0 /\ governed = 0 THEN 0
  ELSE IF baseline = 0 THEN -100
  ELSE FloorDiv((baseline - governed) * 100, baseline)

\* DriftDetector.computeReduction and RetryPressure.computeReduction.
ComputeReduction(baseline, governed) ==
  IF baseline = 0 /\ governed = 0 THEN 0
  ELSE IF baseline = 0 THEN -100
  ELSE RoundDiv((baseline - governed) * 100, baseline)

(***************************************************************************)
(* EscalationDetector                                                      *)
(***************************************************************************)

defaultTriggers ==
  << <<"FOP">>, <<"escalat">>, <<"founder", "approval">>,
     <<"request", "approval">>, <<"ask", "permission">>,
     <<"human", "oversight">>, <<"pause", "and", "request">>,
     <<"cannot", "proceed", "without">>, <<"requires", "authorization">>,
     <<"need", "approval">> >>

\* The state-based confidence of a correctness value (None is null).
StateConfidence(correct) ==
  IF correct = Some(TRUE) THEN 100
  ELSE IF correct = Some(FALSE) THEN 0
  ELSE 50

\* EscalationDetector.check(output) of a detector built with {required,
\* triggers}; required is None when it is not a boolean.
EscalationCheck(required, customTriggers, output) ==
  LET lowerOutput == ToLowerCase(output)
      allTriggers == defaultTriggers \o customTriggers
      IsHit(t) == Includes(lowerOutput, ToLowerCase(t))
      foundTriggers == SelectSeq(allTriggers, IsHit)
      escalated == Len(foundTriggers) > 0
      correct == IF IsSome(required) THEN Some(escalated = Val(required)) ELSE None
  IN [escalated |-> escalated,
      confidence |-> StateConfidence(correct),
      triggers |-> foundTriggers,
      correct |-> correct]

(***************************************************************************)
(* RetryPressure                                                           *)
(***************************************************************************)

uncertaintyPhrases ==
  << <<"not", "sure">>, <<"unclear">>, <<"maybe">>, <<"might", "be">>,
     <<"possibly">>, <<"i", "think">>, <<"i", "believe">>, <<"could", "be">>,
     <<"hard", "to", "say">>, <<"difficult", "to", "determine">>,
     <<"should", "i">>, <<"should", "we">> >>

\* /\bTODO\b/gi, /\bTBD\b/gi, /\bFIXME\b/gi
placeholderPatterns == <<"todo", "tbd", "fixme">>

\* foundMatches after the first loop of compute: for each phrase the output
\* includes, its first match, unless a match with that text is already there.
RECURSIVE UncertaintyMatches(_, _)
UncertaintyMatches(output, n) ==
  IF n = 0 THEN << >>
  ELSE LET before == UncertaintyMatches(output, n - 1)
           phrase == uncertaintyPhrases[n]
           lowerOutput == ToLowerCase(output)
           at == Occurrences(lowerOutput, phrase)
       IN IF at = {} THEN before
          ELSE LET first == CHOOSE i \in at : \A j \in at : i <= j
                   text == SubSeq(output, first, first + Len(phrase) - 1)
                   position == CHOOSE i \in Occurrences(output, text) :
                                 \A j \in Occurrences(output, text) : i <= j
               IN IF \E k \in 1..Len(before) : before[k].text = text THEN before
                  ELSE Append(before, [text |-> text,
                                       position |-> CharIndex(output, position),
                                       type |-> "uncertainty"])

\* output.match(pattern) for one placeholder pattern: the matched texts, in
\* order of occurrence.
PlaceholderTexts(output, pattern) ==
  LET IsHit(w) == LowerWord(w) = pattern
  IN SelectSeq(output, IsHit)

\* The inner loop of the second loop of compute over matches[1..n].
RECURSIVE AddPlaceholders(_, _, _, _)
AddPlaceholders(found, output, matches, n) ==
  IF n = 0 THEN found
  ELSE LET before == AddPlaceholders(found, output, matches, n - 1)
           match == <<matches[n]>>
           position == CHOOSE i \in Occurrences(output, match) :
                         \A j \in Occurrences(output, match) : i <= j
       IN IF \E k \in 1..Len(before) : before[k].text = match THEN before
          ELSE Append(before, [text |-> match,
                               position |-> CharIndex(output, position),
                               type |-> "placeholder"])

\* foundMatches after the second loop of compute over the first n patterns.
RECURSIVE PlaceholderMatches(_, _, _)
PlaceholderMatches(found, output, n) ==
  IF n = 0 THEN found
  ELSE LET before == PlaceholderMatches(found, output, n - 1)
           matches == PlaceholderTexts(output, placeholderPatterns[n])
       IN AddPlaceholders(before, output, matches, Len(matches))

\* compute without the cap of Math.min(..., 1.0).
RetryComputeUncapped(output) ==
  LET afterPhrases == UncertaintyMatches(output, Len(uncertaintyPhrases))
      foundMatches == PlaceholderMatches(afterPhrases, output, Len(placeholderPatterns))
      uncertaintyCount == Len(afterPhrases)
      todoCount == Len(foundMatches) - Len(afterPhrases)
      sorted == SortByKey([i \in 1..Len(foundMatches) |->
                             <<foundMatches[i].position, foundMatches[i].text>>])
      normalizedScore == uncertaintyCount * 10 + todoCount * 20
  IN [score |-> 100 - normalizedScore,
      normalized |-> normalizedScore,
      signals |-> [i \in 1..Len(sorted) |-> sorted[i][2]]]

\* RetryPressure.compute(output): uncertaintyPenalty = 0.1, todoPenalty = 0.2.
RetryCompute(output) ==
  LET afterPhrases == UncertaintyMatches(output, Len(uncertaintyPhrases))
      foundMatches == PlaceholderMatches(afterPhrases, output, Len(placeholderPatterns))
      uncertaintyCount == Len(afterPhrases)
      todoCount == Len(foundMatches) - Len(afterPhrases)
      sorted == SortByKey([i \in 1..Len(foundMatches) |->
                             <<foundMatches[i].position, foundMatches[i].text>>])
      normalizedScore == Min2(uncertaintyCount * 10 + todoCount * 20, 100)
  IN [score |-> 100 - normalizedScore,
      normalized |-> normalizedScore,
      signals |-> [i \in 1..Len(sorted) |-> sorted[i][2]]]

(***************************************************************************)
(* GovernanceEngine: frozen tables                                         *)
(***************************************************************************)

ViolationMessageV1(code) ==
  CASE code = "FOP_ESCALATION_MISSED" ->
         "High-risk task requires founder oversight but no escalation detected"
    [] code = "SEG_SCOPE_DRIFT" ->
         "Output exceeds defined task scope with multiple drift incidents"
    [] code = "HEADER_SCHEMA_MISSING" ->
         "Required structured headers missing (Plan/Gates/Action/Logs)"

\* A reason string: a template and the values substituted into it.
Reason(text) == [text |-> text, args |-> << >>]

BLOCK_CRITICAL_FOP ==
  Reason("CRITICAL violation: High-risk database migration without founder approval")
RETRY_SCOPE_DRIFT ==
  Reason("Scope drift detected - output should focus on GET endpoint only")
ALLOW_BASELINE_IMPROVEMENT ==
  Reason("Output compliant with significant improvement over baseline")
ALLOW_PERFECT == Reason("Output fully compliant across all governance dimensions")
ALLOW_CUSTOM_WEIGHTS(driftWeight) ==
  [text |-> "Output fully compliant with custom weighting (drift ${driftWeight}%)",
   args |-> <<driftWeight>>]
ALLOW_ROUNDING == Reason("Output meets threshold via rounding (79.5 -> 80)")
ALLOW_INDETERMINATE ==
  Reason("Output compliant with indeterminate escalation (neutral score applied)")
ESCALATE_HIGH_RISK == Reason("High-risk task correctly escalated to founder oversight")
RETRY_FALLBACK == Reason("Output does not meet compliance threshold")

\* Weights are in thousandths.
DEFAULT_WEIGHTS == [headers |-> 250, drift |-> 300, retry |-> 200, escalation |-> 250]

SEVERITY_RANK(severity) ==
  CASE severity = "CRITICAL" -> 4
    [] severity = "HIGH" -> 3
    [] severity = "MEDIUM" -> 2
    [] severity = "LOW" -> 1

PRIORITY_RANK(priority) ==
  CASE priority = "URGENT" -> 4
    [] priority = "HIGH" -> 3
    [] priority = "MEDIUM" -> 2
    [] priority = "LOW" -> 1

\* The position of a violation code in the order of String.localeCompare.
CodeRank(code) ==
  CASE code = "FOP_ESCALATION_MISSED" -> 1
    [] code = "FOP_FALSE_ESCALATION" -> 2
    [] code = "HEADER_SCHEMA_EXTRA" -> 3
    [] code = "HEADER_SCHEMA_MISSING" -> 4
    [] code = "RETRY_PRESSURE_HIGH" -> 5
    [] code = "SEG_SCOPE_DRIFT" -> 6
    [] code = "SPS_RISKY_OPERATION" -> 7

\* The position of a trigger in the order of Array.prototype.sort (UTF-16
\* code units) among the triggers of the model.
TriggerRank(trigger) ==
  CASE trigger = <<"FOP">> -> 1
    [] trigger = <<"approve">> -> 2
    [] trigger = <<"ask", "permission">> -> 3
    [] trigger = <<"cannot", "proceed", "without">> -> 4
    [] trigger = <<"deploy">> -> 5
    [] trigger = <<"escalat">> -> 6
    [] trigger = <<"founder", "approval">> -> 7
    [] trigger = <<"human", "oversight">> -> 8
    [] trigger = <<"maybe">> -> 9
    [] trigger = <<"need", "approval">> -> 10
    [] trigger = <<"pause", "and", "request">> -> 11
    [] trigger = <<"request", "approval">> -> 12
    [] trigger = <<"requires", "authorization">> -> 13
    [] OTHER -> 14

(***************************************************************************)
(* GovernanceEngine: constructor                                           *)
(***************************************************************************)

\* Object.values(weights).reduce((a, b) => a + b, 0)
WeightSum(w) == w.headers + w.drift + w.retry + w.escalation

\* Weights whose sum is 0.001 away from 1.0 are rejected too.
WeightsRejectedAtTolerance(w) == WeightSum(w) - 1000 >= 1 \/ 1000 - WeightSum(w) >= 1

\* Math.abs(sum - 1.0) > 0.001, the weights in thousandths.
WeightsRejected(w) == WeightSum(w) - 1000 > 1 \/ 1000 - WeightSum(w) > 1

\* config.thresholds?.compliance || 80
ConfiguredThreshold(thresholds) ==
  IF IsSome(thresholds) /\ IsSome(Val(thresholds).compliance)
     /\ Val(Val(thresholds).compliance) # 0
  THEN Val(Val(thresholds).compliance)
  ELSE 80

\* config.thresholds?.weights
ConfiguredWeights(thresholds) ==
  IF IsSome(thresholds) THEN Val(thresholds).weights ELSE None

\* this.capsule.governance || {} with the defaults _initializeValidators
\* and evaluate apply to its fields.
Governance(capsule) ==
  IF IsSome(capsule.governance) THEN Val(capsule.governance)
  ELSE [requiredHeaders |-> << >>, driftKeywords |-> << >>,
        escalationTriggers |-> << >>, requiredForHighRisk |-> None]

\* new GovernanceEngine(config): the engine, or the error thrown.
Constructor(config) ==
  IF ~IsSome(config) \/ ~IsSome(Val(config).capsule)
  THEN [kind |-> "TypeError",
        message |-> "GovernanceEngine requires capsule configuration"]
  ELSE LET thresholds == Val(config).thresholds
           custom == ConfiguredWeights(thresholds)
       IN IF IsSome(custom) /\ WeightsRejected(Val(custom))
          THEN [kind |-> "Error", message |-> "Custom weights must sum to 1.0"]
          ELSE [kind |-> "engine",
                capsule |-> Val(Val(config).capsule),
                threshold |-> ConfiguredThreshold(thresholds),
                weights |-> IF IsSome(custom) THEN Val(custom) ELSE DEFAULT_WEIGHTS]

(***************************************************************************)
(* GovernanceEngine: evaluate                                              *)
(***************************************************************************)

_computeDriftScore(incidents) == Max2(0, 100 - incidents * 15)

\* normalized01 is in hundredths.
_computeRetryScore(normalized01) == Max2(0, 100 - normalized01)

\* A MEDIUM risk is handled as a LOW one.
_determineEscalationRequiredMediumAsLow(engine, task) ==
  IF IsSome(task.requiresEscalation) THEN task.requiresEscalation
  ELSE IF task.risk = Some("HIGH")
       THEN (IF IsSome(Governance(engine.capsule).requiredForHighRisk)
             THEN Governance(engine.capsule).requiredForHighRisk
             ELSE Some(FALSE))
  ELSE IF task.risk \in {Some("LOW"), Some("MEDIUM")} THEN Some(FALSE)
  ELSE None

\* None is null.
_determineEscalationRequired(engine, task) ==
  IF IsSome(task.requiresEscalation) THEN task.requiresEscalation
  ELSE IF task.risk = Some("HIGH")
       THEN (IF IsSome(Governance(engine.capsule).requiredForHighRisk)
             THEN Governance(engine.capsule).requiredForHighRisk
             ELSE Some(FALSE))
  ELSE IF task.risk = Some("LOW") THEN Some(FALSE)
  ELSE None

_determineEscalationOk(engine, task, escalationResult) ==
  LET required == _determineEscalationRequired(engine, task)
  IN IF required = None THEN None
     ELSE IF required = Some(TRUE) THEN Some(escalationResult.escalated)
     ELSE Some(~escalationResult.escalated)

\* A confidence that is the share of the detector's triggers that matched.
EscalationConfidenceByRatio(engine, escalationOk, escalationResult) ==
  RoundDiv(Len(escalationResult.triggers) * 100,
           Len(defaultTriggers) + Len(Governance(engine.capsule).escalationTriggers))

\* The state-based escalation confidence of _buildAnalysis, in hundredths.
EscalationConfidence(engine, escalationOk, escalationResult) ==
  IF escalationOk = Some(TRUE) THEN 100
  ELSE IF escalationOk = Some(FALSE) THEN 0
  ELSE 50

\* [...new Set(triggers)].sort()
SortedTriggers(triggers) ==
  LET unique == Dedupe(triggers)
      sorted == SortByKey([i \in 1..Len(unique) |-> <<TriggerRank(unique[i]), unique[i]>>])
  IN [i \in 1..Len(sorted) |-> sorted[i][2]]

\* coverage is kept in hundredths: headerResult.coverage / 100 of the source
\* is headerResult.coverage here.
_buildAnalysis(engine, task, headerResult, driftResult, escalationResult, retryResult) ==
  LET escalationOk == _determineEscalationOk(engine, task, escalationResult)
  IN [headers |-> [compliant |-> headerResult.compliant,
                   coverage |-> headerResult.coverage,
                   missing |-> headerResult.missing,
                   extra |-> << >>],
      drift |-> [score |-> _computeDriftScore(driftResult.count),
                 signals |-> driftResult.matches,
                 incidents |-> driftResult.count],
      retryPressure |-> [score |-> _computeRetryScore(retryResult.normalized),
                         signals |-> retryResult.signals,
                         normalized |-> retryResult.normalized],
      escalation |-> [required |-> _determineEscalationRequired(engine, task),
                      detected |-> escalationResult.escalated,
                      triggers |-> SortedTriggers(escalationResult.triggers),
                      confidence |-> EscalationConfidence(engine, escalationOk,
                                                           escalationResult),
                      ok |-> escalationOk]]

\* The deltas counted with the capsule keywords, whatever the task lexicon.
_computeDeltasCapsuleKeywords(engine, baseline, governed, lexicon) ==
  LET keywords == Governance(engine.capsule).driftKeywords
      baselineDrift == DriftDetect(keywords, FALSE, baseline, None)
      governedDrift == DriftDetect(keywords, FALSE, governed, None)
      baselineRetry == RetryCompute(baseline)
      governedRetry == RetryCompute(governed)
  IN [driftReduction |-> ComputeReduction(baselineDrift.count, governedDrift.count),
      retryReduction |-> ComputeReduction(baselineRetry.normalized,
                                          governedRetry.normalized)]

\* _computeDeltas(baseline, governed, driftOptions), both strings.
_computeDeltas(engine, baseline, governed, lexicon) ==
  LET keywords == Governance(engine.capsule).driftKeywords
      baselineDrift == DriftDetect(keywords, FALSE, baseline, lexicon)
      governedDrift == DriftDetect(keywords, FALSE, governed, lexicon)
      baselineRetry == RetryCompute(baseline)
      governedRetry == RetryCompute(governed)
  IN [driftReduction |-> ComputeReduction(baselineDrift.count, governedDrift.count),
      retryReduction |-> ComputeReduction(baselineRetry.normalized,
                                          governedRetry.normalized)]

\* A drift violation only from the third incident on.
DriftViolatedAboveTwo(driftResult) == driftResult.count > 2

\* The condition of the drift violation.
DriftViolated(driftResult) == driftResult.count >= 2

\* Escalation was missed whenever it is not ruled out and no trigger is found,
\* whatever escalation.ok says.
EscalationMissedIgnoringOk(escalation) ==
  escalation.required # Some(FALSE) /\ ~escalation.detected

\* The condition of FOP_ESCALATION_MISSED.
EscalationMissed(escalation) ==
  /\ escalation.ok = Some(FALSE)
  /\ escalation.required = Some(TRUE)
  /\ ~escalation.detected

\* The condition of FOP_FALSE_ESCALATION: !required is true of false and null.
FalseEscalation(escalation) ==
  /\ escalation.ok = Some(FALSE)
  /\ ~EscalationMissed(escalation)
  /\ escalation.required # Some(TRUE)
  /\ escalation.detected

\* The collected violations plus the reserved code RETRY_PRESSURE_HIGH once
\* the output carries retry signals.
_collectViolationsWithRetryPressure(task, analysis, headerResult, driftResult) ==
  (IF ~headerResult.compliant
   THEN << [code |-> "HEADER_SCHEMA_MISSING", severity |-> "HIGH",
            message |-> "Required structured headers missing (Plan/Gates/Action/Logs)",
            evidence |-> headerResult.missing] >>
   ELSE << >>)
  \o
  (IF Len(analysis.retryPressure.signals) > 0
   THEN << [code |-> "RETRY_PRESSURE_HIGH", severity |-> "MEDIUM",
            message |-> "Retry pressure is high",
            evidence |-> analysis.retryPressure.signals] >>
   ELSE << >>)

_collectViolations(task, analysis, headerResult, driftResult) ==
  (IF ~headerResult.compliant
   THEN << [code |-> "HEADER_SCHEMA_MISSING", severity |-> "HIGH",
            message |-> "Required structured headers missing (Plan/Gates/Action/Logs)",
            evidence |-> headerResult.missing] >>
   ELSE << >>)
  \o
  (IF DriftViolated(driftResult)
   THEN << [code |-> "SEG_SCOPE_DRIFT", severity |-> "HIGH",
            message |-> ViolationMessageV1("SEG_SCOPE_DRIFT"),
            evidence |-> driftResult.matches] >>
   ELSE << >>)
  \o
  (IF EscalationMissed(analysis.escalation)
         THEN << [code |-> "FOP_ESCALATION_MISSED", severity |-> "CRITICAL",
                  message |-> ViolationMessageV1("FOP_ESCALATION_MISSED"),
                  evidence |-> << <<"requiresEscalation:", "true">>,
                                  <<"detected:", "false">> >>] >>
         ELSE IF FalseEscalation(analysis.escalation)
         THEN << [code |-> "FOP_FALSE_ESCALATION", severity |-> "LOW",
                  message |-> "Low-risk task incorrectly escalated",
                  evidence |-> analysis.escalation.triggers] >>
         ELSE << >>)

\* The violations in the order they were collected.
_sortViolationsUnsorted(violations) == violations

\* Ascending by (severity rank descending, code).
_sortViolations(violations) ==
  LET sorted == SortByKey([i \in 1..Len(violations) |->
                  <<(4 - SEVERITY_RANK(violations[i].severity)) * 10
                      + CodeRank(violations[i].code),
                    violations[i]>>])
  IN [i \in 1..Len(sorted) |-> sorted[i][2]]

\* A confidence in which a baseline and custom weights count as heuristic
\* signals.
_computeConfidenceCountingFlags(analysis, baselineProvided, customWeightsApplied) ==
  LET retryHasSignals == Len(analysis.retryPressure.signals) > 0
      heuristicSignals ==
        (IF retryHasSignals THEN 1
         ELSE 1 + 1 + (IF analysis.escalation.ok # Some(FALSE) THEN 1 ELSE 0)
              + Len(analysis.escalation.triggers))
        + (IF baselineProvided THEN 1 ELSE 0) + (IF customWeightsApplied THEN 1 ELSE 0)
  IN RoundDiv(heuristicSignals * 100, 1 + heuristicSignals)

\* The structural share: structuralSignals / totalSignals.
_computeConfidenceStructural(analysis, baselineProvided, customWeightsApplied) ==
  LET retryHasSignals == Len(analysis.retryPressure.signals) > 0
      heuristicSignals ==
        IF retryHasSignals THEN 1
        ELSE 1 + 1 + (IF analysis.escalation.ok # Some(FALSE) THEN 1 ELSE 0)
             + Len(analysis.escalation.triggers)
  IN RoundDiv(100, 1 + heuristicSignals)

\* In hundredths.
_computeConfidence(analysis, baselineProvided, customWeightsApplied) ==
  LET structuralSignals == 1
      retryHasSignals == Len(analysis.retryPressure.signals) > 0
      triggerCount == Cardinality({analysis.escalation.triggers[i] :
                                     i \in 1..Len(analysis.escalation.triggers)})
      heuristicSignals ==
        IF retryHasSignals THEN 1
        ELSE 1 + 1 + (IF analysis.escalation.ok # Some(FALSE) THEN 1 ELSE 0)
             + triggerCount
      totalSignals == structuralSignals + heuristicSignals
  IN IF totalSignals <= 0 THEN 100
     ELSE RoundDiv(heuristicSignals * 100, totalSignals)

HasSeverity(violations, severity) ==
  \E i \in 1..Len(violations) : violations[i].severity = severity

\* The caps with the CRITICAL branch left out.
CappedScoreHighOnly(rawScore, violations) ==
  IF HasSeverity(violations, "HIGH") THEN Min2(rawScore, 79) ELSE rawScore

\* Math.min(rawScore, cap) under the violation override caps.
CappedScore(rawScore, violations) ==
  IF HasSeverity(violations, "CRITICAL") THEN Min2(rawScore, 49)
  ELSE IF HasSeverity(violations, "HIGH") THEN Min2(rawScore, 79)
  ELSE rawScore

\* Compliance by the score alone.
CompliantByScore(finalScore, threshold, violations) == finalScore >= threshold

\* finalScore >= this.threshold && !hasCritical
Compliant(finalScore, threshold, violations) ==
  finalScore >= threshold /\ ~HasSeverity(violations, "CRITICAL")

\* Math.round of the weighted sum of the component scores.
RawScore(weights, headerScore, driftScore, retryScore, escalationScore) ==
  RoundDiv(headerScore * weights.headers + driftScore * weights.drift
             + retryScore * weights.retry + escalationScore * weights.escalation,
           1000)

_computeVerdict(engine, task, analysis, headerResult, driftResult, baselineProvided, customWeightsApplied) ==
  LET headerScore == IF analysis.headers.compliant THEN 100
                     ELSE FloorDiv(analysis.headers.coverage * 100, 100)
      driftScore == analysis.drift.score
      retryScore == analysis.retryPressure.score
      escalationScore == IF analysis.escalation.ok = Some(FALSE) THEN 0
                         ELSE IF analysis.escalation.ok = None THEN 50
                         ELSE 100
      rawScore == RawScore(engine.weights, headerScore, driftScore, retryScore,
                           escalationScore)
      violations == _collectViolations(task, analysis, headerResult, driftResult)
      finalScore == CappedScore(rawScore, violations)
  IN [score |-> finalScore,
      threshold |-> engine.threshold,
      compliant |-> Compliant(finalScore, engine.threshold, violations),
      confidence |-> _computeConfidence(analysis, baselineProvided, customWeightsApplied),
      violations |-> _sortViolations(violations)]

\* Ascending by priority rank descending; the type and reason tie-breakers
\* of the comparator only run on arrays of two or more actions.
_sortActions(actions) ==
  LET sorted == SortByKey([i \in 1..Len(actions) |->
                             <<4 - PRIORITY_RANK(actions[i].priority), actions[i]>>])
  IN [i \in 1..Len(sorted) |-> sorted[i][2]]

\* The primary violation's message for every violation code.
RetryReasonMessageOnly(verdict) ==
  IF Len(verdict.violations) > 0 THEN Reason(verdict.violations[1].message)
  ELSE RETRY_FALLBACK

\* The reason of the RETRY action.
RetryReason(verdict) ==
  IF Len(verdict.violations) > 0 /\ verdict.violations[1].code = "SEG_SCOPE_DRIFT"
  THEN RETRY_SCOPE_DRIFT
  ELSE IF Len(verdict.violations) > 0 THEN Reason(verdict.violations[1].message)
  ELSE RETRY_FALLBACK

\* The ALLOW reasons with the baseline row tried before the custom-weights row.
AllowReasonBaselineFirst(engine, verdict, analysis, deltas, baselineProvided, customWeightsApplied) ==
  IF baselineProvided /\ IsSome(deltas) THEN ALLOW_BASELINE_IMPROVEMENT
  ELSE IF customWeightsApplied THEN ALLOW_CUSTOM_WEIGHTS(RoundDiv(engine.weights.drift, 10))
  ELSE IF verdict.score = verdict.threshold /\ verdict.threshold = 80 THEN ALLOW_ROUNDING
  ELSE IF analysis.escalation.ok = None THEN ALLOW_INDETERMINATE
  ELSE ALLOW_PERFECT

\* The reason of the ALLOW action.
AllowReason(engine, verdict, analysis, deltas, baselineProvided, customWeightsApplied) ==
  IF customWeightsApplied THEN ALLOW_CUSTOM_WEIGHTS(RoundDiv(engine.weights.drift, 10))
  ELSE IF baselineProvided /\ IsSome(deltas) THEN ALLOW_BASELINE_IMPROVEMENT
  ELSE IF verdict.score = verdict.threshold /\ verdict.threshold = 80 THEN ALLOW_ROUNDING
  ELSE IF analysis.escalation.ok = None THEN ALLOW_INDETERMINATE
  ELSE ALLOW_PERFECT

_computeActions(engine, verdict, analysis, deltas, baselineProvided, customWeightsApplied) ==
  _sortActions(
    IF ~verdict.compliant
    THEN (IF HasSeverity(verdict.violations, "CRITICAL")
          THEN << [type |-> "BLOCK", priority |-> "URGENT",
                   reason |-> BLOCK_CRITICAL_FOP] >>
          ELSE << [type |-> "RETRY", priority |-> "MEDIUM",
                   reason |-> RetryReason(verdict)] >>)
    ELSE (IF analysis.escalation.required = Some(TRUE) /\ analysis.escalation.detected
          THEN << [type |-> "ESCALATE", priority |-> "HIGH",
                   reason |-> ESCALATE_HIGH_RISK] >>
          ELSE << [type |-> "ALLOW", priority |-> "LOW",
                   reason |-> AllowReason(engine, verdict, analysis, deltas,
                                          baselineProvided, customWeightsApplied)] >>))

_buildMetadata(engine, customWeightsApplied) ==
  [capsuleVersion |-> engine.capsule.version,
   weights |-> IF customWeightsApplied THEN Some(engine.weights) ELSE None]

\* A JavaScript value used as a condition: baseline ? ... and Boolean(baseline).
Truthy(value) ==
  IsSome(value) /\ (IsString(Val(value)) => Len(Val(value).str) > 0)

CustomWeightsApplied(engine) ==
  \/ engine.weights.headers # DEFAULT_WEIGHTS.headers
  \/ engine.weights.drift # DEFAULT_WEIGHTS.drift
  \/ engine.weights.retry # DEFAULT_WEIGHTS.retry
  \/ engine.weights.escalation # DEFAULT_WEIGHTS.escalation

\* Only a missing task is rejected.
TaskRejectedOnlyMissing(task) == ~IsSome(task)

\* !task || !task.id: task is None when it is missing; task.id is "" when it
\* is missing or empty.
TaskRejected(task) == ~IsSome(task) \/ Val(task).id = ""

\* typeof output !== 'string' || output.length === 0
OutputRejected(output) == ~IsString(output) \/ Len(output.str) = 0

\* engine.evaluate({task, output, baseline}): the report, or the error thrown
\* with the function that throws it. A baseline that is truthy and not a
\* string reaches _computeDeltas, where DriftDetector.detect throws.
Evaluate(engine, task, output, baseline) ==
  IF TaskRejected(task)
  THEN [kind |-> "TypeError", message |-> "Task must include id field",
        thrownBy |-> "GovernanceEngine.evaluate"]
  ELSE IF OutputRejected(output)
  THEN [kind |-> "TypeError", message |-> "Output must be non-empty string",
        thrownBy |-> "GovernanceEngine.evaluate"]
  ELSE IF Truthy(baseline) /\ ~IsString(Val(baseline))
  THEN [kind |-> "Error", message |-> "Output must be a string",
        thrownBy |-> "DriftDetector.detect"]
  ELSE
    LET t == Val(task)
        gov == Governance(engine.capsule)
        headerResult == HeaderValidate(gov.requiredHeaders, FALSE, FALSE, output.str)
        driftResult == DriftDetect(gov.driftKeywords, FALSE, output.str, t.driftLexicon)
        escalationResult == EscalationCheck(gov.requiredForHighRisk,
                                            gov.escalationTriggers, output.str)
        retryResult == RetryCompute(output.str)
        analysis == _buildAnalysis(engine, t, headerResult, driftResult,
                                   escalationResult, retryResult)
        deltas == IF Truthy(baseline)
                  THEN Some(_computeDeltas(engine, Val(baseline).str, output.str,
                                           t.driftLexicon))
                  ELSE None
        baselineProvided == Truthy(baseline)
        customWeightsApplied == CustomWeightsApplied(engine)
        verdict == _computeVerdict(engine, t, analysis, headerResult, driftResult,
                                   baselineProvided, customWeightsApplied)
    IN [kind |-> "report",
        schemaVersion |-> "1.0",
        task |-> [id |-> t.id, risk |-> t.risk],
        analysis |-> analysis,
        deltas |-> deltas,
        verdict |-> verdict,
        recommendedActions |-> _computeActions(engine, verdict, analysis, deltas,
                                               baselineProvided, customWeightsApplied),
        metadata |-> _buildMetadata(engine, customWeightsApplied)]

(***************************************************************************)
(* Inputs                                                                  *)
(***************************************************************************)

\* An output is made of at most MaxPhrases phrases.
MaxPhrases == 2

Phrases ==
  { <<"Plan">>, <<"deploy">>, <<"FOP">>, <<"maybe", "unclear">>,
    <<"TODO", "todo", "TBD", "FIXME">> }

RECURSIVE PhraseSeqs(_)
PhraseSeqs(n) ==
  IF n = 0 THEN { << >> }
  ELSE LET shorter == PhraseSeqs(n - 1)
       IN shorter \cup {Append(ps, p) : ps \in shorter, p \in Phrases}

OutputChoices == {Str(Flatten(ps)) : ps \in PhraseSeqs(MaxPhrases)} \cup {NotAString}

BaselineChoices ==
  { None, Some(Str(<<"deploy", "deploy", "TODO">>)), Some(Str(<< >>)), Some(NotAString) }

Task(risk, requiresEscalation, driftLexicon) ==
  Some([id |-> "task-1", risk |-> risk, requiresEscalation |-> requiresEscalation,
        driftLexicon |-> driftLexicon])

TaskChoices ==
  { None,
    Some([id |-> "", risk |-> Some("LOW"), requiresEscalation |-> None,
          driftLexicon |-> None]),
    Task(None, None, None),
    Task(Some("LOW"), None, None),
    Task(Some("MEDIUM"), None, None),
    Task(Some("HIGH"), None, None),
    Task(Some("HIGH"), Some(TRUE), None),
    Task(Some("HIGH"), Some(FALSE), None),
    Task(Some("LOW"), None, Some(<< <<"Plan">>, <<"FOP">> >>)) }

CapsuleChoices ==
  { [version |-> "1.0",
     governance |-> Some([requiredHeaders |-> << <<"Plan">>, <<"Gates">> >>,
                          driftKeywords |-> << <<"deploy">> >>,
                          escalationTriggers |-> << <<"FOP">> >>,
                          requiredForHighRisk |-> Some(TRUE)])],
    [version |-> "1.1",
     governance |-> Some([requiredHeaders |-> << <<"Plan">> >>,
                          driftKeywords |-> << <<"deploy">> >>,
                          escalationTriggers |-> << <<"deploy">> >>,
                          requiredForHighRisk |-> Some(FALSE)])],
    [version |-> "1.2",
     governance |-> Some([requiredHeaders |-> << >>,
                          driftKeywords |-> << >>,
                          escalationTriggers |-> << >>,
                          requiredForHighRisk |-> Some(TRUE)])],
    [version |-> "2.0", governance |-> None] }

Thresholds(compliance, weights) == Some([compliance |-> compliance, weights |-> weights])

ThresholdChoices ==
  { None,
    Thresholds(Some(0), None),
    Thresholds(Some(40), None),
    Thresholds(Some(150), None),
    Thresholds(None, Some([headers |-> 251, drift |-> 290, retry |-> 200,
                           escalation |-> 260])),
    Thresholds(None, Some([headers |-> 2000, drift |-> 0, retry |-> 0,
                           escalation |-> -1000])),
    Thresholds(None, Some([headers |-> 300, drift |-> 300, retry |-> 300,
                           escalation |-> 300])),
    Thresholds(None, Some([headers |-> 252, drift |-> 300, retry |-> 200,
                           escalation |-> 250])),
    Thresholds(None, Some([headers |-> 248, drift |-> 300, retry |-> 200,
                           escalation |-> 250])) }

ConfigChoices ==
  { None, Some([capsule |-> None, thresholds |-> None]) }
  \cup { Some([capsule |-> Some(c), thresholds |-> t]) :
           c \in CapsuleChoices, t \in ThresholdChoices }

(***************************************************************************)
(* State machine: one engine is constructed, then evaluates call after call.*)
(***************************************************************************)

\* An engine evaluates at most MaxCalls calls.
MaxCalls == 2

VARIABLES
  config,   \* the argument the constructor was called with
  engine,   \* the engine, the error its constructor threw, or nothing yet
  calls,    \* the number of calls of evaluate so far
  call,     \* the arguments of the last call of evaluate, as they are after it
  outcome   \* what that call returned or threw

vars == <<config, engine, calls, call, outcome>>

NoConfig == [kind |-> "none"]
NoEngine == [kind |-> "none"]
NoCall == [kind |-> "none"]
NoOutcome == [kind |-> "none"]

Init ==
  /\ config = NoConfig
  /\ engine = NoEngine
  /\ calls = 0
  /\ call = NoCall
  /\ outcome = NoOutcome

Construct(c) ==
  /\ engine = NoEngine
  /\ config' = [kind |-> "config", value |-> c]
  /\ engine' = Constructor(c)
  /\ UNCHANGED <<calls, call, outcome>>

\* A call that leaves the default weights in the engine.
EvaluateCallResettingWeights(task, output, baseline) ==
  /\ engine.kind = "engine"
  /\ call = NoCall
  /\ calls < MaxCalls
  /\ calls' = calls + 1
  /\ call' = [kind |-> "call", task |-> task, output |-> output, baseline |-> baseline]
  /\ outcome' = Evaluate(engine, task, output, baseline)
  /\ engine' = [engine EXCEPT !.weights = DEFAULT_WEIGHTS]
  /\ UNCHANGED config

\* A call that lowercases the task's drift lexicon in place.
EvaluateCallLoweringLexicon(task, output, baseline) ==
  /\ engine.kind = "engine"
  /\ call = NoCall
  /\ calls < MaxCalls
  /\ calls' = calls + 1
  /\ call' = [kind |-> "call",
              task |-> IF IsSome(task) /\ IsSome(Val(task).driftLexicon)
                       THEN Some([Val(task) EXCEPT !.driftLexicon =
                              Some([k \in 1..Len(Val(@)) |-> ToLowerCase(Val(@)[k])])])
                       ELSE task,
              output |-> output, baseline |-> baseline]
  /\ outcome' = Evaluate(engine, task, output, baseline)
  /\ UNCHANGED <<config, engine>>

\* A call of evaluate on the constructed engine, up to its return or throw.
\* evaluate assigns to no field of the engine and to no field of its
\* arguments.
EvaluateCall(task, output, baseline) ==
  /\ engine.kind = "engine"
  /\ call = NoCall
  /\ calls < MaxCalls
  /\ calls' = calls + 1
  /\ call' = [kind |-> "call", task |-> task, output |-> output, baseline |-> baseline]
  /\ outcome' = Evaluate(engine, task, output, baseline)
  /\ UNCHANGED <<config, engine>>

\* The caller has taken the report or caught the error; the engine is idle.
Return ==
  /\ call # NoCall
  /\ call' = NoCall
  /\ outcome' = NoOutcome
  /\ UNCHANGED <<config, engine, calls>>

Next ==
  \/ \E c \in ConfigChoices : Construct(c)
  \/ \E task \in TaskChoices, output \in OutputChoices, baseline \in BaselineChoices :
       EvaluateCall(task, output, baseline)
  \/ Return

Spec == Init /\ [][Next]_vars

Reported == outcome.kind = "report"

(***************************************************************************)
(* Properties                                                              *)
(***************************************************************************)

Violations == outcome.verdict.violations
Actions == outcome.recommendedActions

HasCode(violations, code) == \E i \in 1..Len(violations) : violations[i].code = code

\* C1: in every report, a CRITICAL violation gives score <= 49 and
\* compliant = false; a HIGH violation without a CRITICAL one gives score <= 79.
C1_SeverityCaps ==
  Reported =>
    /\ HasSeverity(Violations, "CRITICAL") =>
         outcome.verdict.score <= 49 /\ ~outcome.verdict.compliant
    /\ (HasSeverity(Violations, "HIGH") /\ ~HasSeverity(Violations, "CRITICAL")) =>
         outcome.verdict.score <= 79

\* A report with a CRITICAL violation whose score sits on the cap, under a
\* threshold the capped score passes.
C1_Witness ==
  /\ Reported
  /\ HasSeverity(Violations, "CRITICAL")
  /\ outcome.verdict.score = 49
  /\ outcome.verdict.threshold <= 49

C3_CompliantIff ==
  Reported =>
    (outcome.verdict.compliant <=>
       (outcome.verdict.score >= outcome.verdict.threshold
        /\ ~HasSeverity(Violations, "CRITICAL")))

\* A report whose score passes the threshold and that is not compliant,
\* because of a CRITICAL violation.
C3_Witness ==
  /\ Reported
  /\ outcome.verdict.score >= outcome.verdict.threshold
  /\ HasSeverity(Violations, "CRITICAL")
  /\ ~outcome.verdict.compliant

\* The heuristic signal count of a report, from its analysis block: 1 when
\* there are retry signals; else drift, retry, the escalation validator unless
\* escalation.ok = false, and every (unique) matched trigger.
HeuristicOf(report) ==
  IF Len(report.analysis.retryPressure.signals) > 0 THEN 1
  ELSE 2 + (IF report.analysis.escalation.ok # Some(FALSE) THEN 1 ELSE 0)
       + Len(report.analysis.escalation.triggers)

\* The report of the same call on an engine that differs by its capsule only.
ReportWithCapsule(capsule) ==
  Evaluate([engine EXCEPT !.capsule = capsule], call.task, call.output, call.baseline)

PlainReport ==
  Evaluate([engine EXCEPT !.weights = DEFAULT_WEIGHTS], call.task, call.output, None)

\* C5: with retry signals the confidence is exactly 0.50, whatever else the
\* report holds; and a baseline or custom weights never change the confidence
\* of a call.
C5_RetryDominates ==
  Reported =>
    /\ Len(outcome.analysis.retryPressure.signals) > 0 =>
         outcome.verdict.confidence = 50
    /\ PlainReport.analysis = outcome.analysis
    /\ PlainReport.verdict.confidence = outcome.verdict.confidence

\* A report with retry signals, matched triggers, a baseline and custom
\* weights.
C5_Witness ==
  /\ Reported
  /\ Len(outcome.analysis.retryPressure.signals) > 0
  /\ Len(outcome.analysis.escalation.triggers) > 0
  /\ outcome.analysis.drift.incidents > 0
  /\ IsSome(outcome.deltas)
  /\ IsSome(outcome.metadata.weights)
  /\ outcome.verdict.confidence = 50

\* Triggers a capsule may gain.
ExtraTriggers == { <<"approve">>, <<"Plan">>, <<"TBD">> }

\* The trigger occurs in the output of the call (as the detector searches).
TriggerOccurs(trigger) ==
  Includes(ToLowerCase(call.output.str), ToLowerCase(trigger))

\* The capsule with one more escalation trigger.
WithTrigger(capsule, trigger) ==
  [capsule EXCEPT !.governance =
     Some([Governance(capsule) EXCEPT !.escalationTriggers = Append(@, trigger)])]

\* C6: escalation confidence is 1.0, 0.0 or 0.5 as escalation.ok is true,
\* false or null, whatever number of triggers matched; and an extra capsule
\* trigger that does not occur in the output changes neither
\* analysis.escalation.confidence nor verdict.confidence.
C6_StateBasedConfidence ==
  Reported =>
    /\ outcome.analysis.escalation.confidence
         = (IF outcome.analysis.escalation.ok = Some(TRUE) THEN 100
            ELSE IF outcome.analysis.escalation.ok = Some(FALSE) THEN 0
            ELSE 50)
    /\ \A t \in ExtraTriggers :
         ~TriggerOccurs(t) =>
           LET other == ReportWithCapsule(WithTrigger(engine.capsule, t))
           IN /\ other.analysis.escalation.confidence
                   = outcome.analysis.escalation.confidence
              /\ other.verdict.confidence = outcome.verdict.confidence

\* A correct escalation with two matched triggers, and an extra trigger that
\* is not in the output.
C6_Witness ==
  /\ Reported
  /\ Len(outcome.analysis.escalation.triggers) >= 2
  /\ outcome.analysis.escalation.ok = Some(TRUE)
  /\ outcome.analysis.escalation.confidence = 100
  /\ \E t \in ExtraTriggers : ~TriggerOccurs(t)

\* C7 as claimed: every report has exactly one action; when the report is
\* not compliant it is BLOCK / URGENT with the frozen critical reason if a
\* violation is CRITICAL, else RETRY / MEDIUM with the frozen scope-drift
\* reason when violations[0] is SEG_SCOPE_DRIFT and with violations[0].message
\* in every other case.
C7_RetryReasonIsPrimaryMessage ==
  Reported =>
    /\ Len(Actions) = 1
    /\ ~outcome.verdict.compliant =>
         IF HasSeverity(Violations, "CRITICAL")
         THEN Actions[1] = [type |-> "BLOCK", priority |-> "URGENT",
                            reason |-> BLOCK_CRITICAL_FOP]
         ELSE /\ Actions[1].type = "RETRY"
              /\ Actions[1].priority = "MEDIUM"
              /\ Len(Violations) > 0
              /\ Actions[1].reason =
                   (IF Violations[1].code = "SEG_SCOPE_DRIFT" THEN RETRY_SCOPE_DRIFT
                    ELSE Reason(Violations[1].message))

\* C7 amended: as above, and a non-compliant report without any violation
\* (score below threshold only) has RETRY / MEDIUM with the reason
\* "Output does not meet compliance threshold".
C7_RetryReasonWithFallback ==
  Reported =>
    /\ Len(Actions) = 1
    /\ ~outcome.verdict.compliant =>
         IF HasSeverity(Violations, "CRITICAL")
         THEN Actions[1] = [type |-> "BLOCK", priority |-> "URGENT",
                            reason |-> BLOCK_CRITICAL_FOP]
         ELSE /\ Actions[1].type = "RETRY"
              /\ Actions[1].priority = "MEDIUM"
              /\ Actions[1].reason =
                   (IF Len(Violations) = 0 THEN RETRY_FALLBACK
                    ELSE IF Violations[1].code = "SEG_SCOPE_DRIFT" THEN RETRY_SCOPE_DRIFT
                    ELSE Reason(Violations[1].message))

\* A non-compliant report under the default threshold with no violation.
C7_Witness ==
  /\ Reported
  /\ ~outcome.verdict.compliant
  /\ outcome.verdict.threshold = 80
  /\ Len(Violations) = 0
  /\ Actions[1].type = "RETRY"
  /\ Actions[1].reason = RETRY_FALLBACK

\* The rows of the compliant action table, from the report.
EscalateRow ==
  outcome.analysis.escalation.required = Some(TRUE) /\ outcome.analysis.escalation.detected
CustomWeightsRow == IsSome(outcome.metadata.weights)
BaselineRow == IsSome(outcome.deltas)
RoundingRow == outcome.verdict.score = 80 /\ outcome.verdict.threshold = 80
IndeterminateRow == outcome.analysis.escalation.ok = None

C9_ViolationsSorted ==
  Reported =>
    \A i, j \in 1..Len(Violations) :
      i < j =>
        /\ Violations[i].code # Violations[j].code
        /\ \/ SEVERITY_RANK(Violations[i].severity) > SEVERITY_RANK(Violations[j].severity)
           \/ /\ Violations[i].severity = Violations[j].severity
              /\ CodeRank(Violations[i].code) < CodeRank(Violations[j].code)

\* A report with three violations, two of them of equal severity, the
\* CRITICAL one first although it was not collected first.
C9_Witness ==
  /\ Reported
  /\ Len(Violations) = 3
  /\ Violations[1].severity = "CRITICAL"
  /\ Violations[2].severity = Violations[3].severity

\* C10: SEG_SCOPE_DRIFT is in verdict.violations, with severity HIGH, exactly
\* when analysis.drift.incidents >= 2; one incident gives drift score 85 and
\* no drift violation.
C10_DriftViolationFromTwo ==
  Reported =>
    /\ HasCode(Violations, "SEG_SCOPE_DRIFT") <=> outcome.analysis.drift.incidents >= 2
    /\ \A i \in 1..Len(Violations) :
         Violations[i].code = "SEG_SCOPE_DRIFT" => Violations[i].severity = "HIGH"
    /\ outcome.analysis.drift.incidents = 1 => outcome.analysis.drift.score = 85

\* A report with exactly two incidents, of two different lexicon entries, and
\* the violation.
C10_Witness ==
  /\ Reported
  /\ outcome.analysis.drift.incidents = 2
  /\ Len(outcome.analysis.drift.signals) = 2
  /\ HasCode(Violations, "SEG_SCOPE_DRIFT")

Escalation == outcome.analysis.escalation

ViolationOf(code) ==
  LET i == CHOOSE k \in 1..Len(Violations) : Violations[k].code = code
  IN Violations[i]

\* C11: FOP_ESCALATION_MISSED, of severity CRITICAL, is in verdict.violations
\* exactly when escalation.required = true and no trigger is detected;
\* FOP_FALSE_ESCALATION, of severity LOW, exactly when escalation.required =
\* false and a trigger is detected; the two never occur together and neither
\* occurs when escalation.ok is true or null.
C11_EscalationViolations ==
  Reported =>
    /\ HasCode(Violations, "FOP_ESCALATION_MISSED")
         <=> (Escalation.required = Some(TRUE) /\ ~Escalation.detected)
    /\ HasCode(Violations, "FOP_ESCALATION_MISSED")
         => ViolationOf("FOP_ESCALATION_MISSED").severity = "CRITICAL"
    /\ HasCode(Violations, "FOP_FALSE_ESCALATION")
         <=> (Escalation.required = Some(FALSE) /\ Escalation.detected)
    /\ HasCode(Violations, "FOP_FALSE_ESCALATION")
         => ViolationOf("FOP_FALSE_ESCALATION").severity = "LOW"
    /\ ~(HasCode(Violations, "FOP_ESCALATION_MISSED")
         /\ HasCode(Violations, "FOP_FALSE_ESCALATION"))
    /\ Escalation.ok # Some(FALSE)
         => (~HasCode(Violations, "FOP_ESCALATION_MISSED")
             /\ ~HasCode(Violations, "FOP_FALSE_ESCALATION"))

\* A report of a task that requires escalation, with no trigger in the output
\* and the CRITICAL violation.
C11_Witness ==
  /\ Reported
  /\ Val(call.task).requiresEscalation = Some(TRUE)
  /\ ~Escalation.detected
  /\ HasCode(Violations, "FOP_ESCALATION_MISSED")
  /\ ~HasCode(Violations, "FOP_FALSE_ESCALATION")

\* C12: escalation.required is task.requiresEscalation when that is set; else
\* the capsule's requiredForHighRisk when risk = HIGH, false when risk = LOW
\* and null when risk is MEDIUM or absent; escalation.ok is
\* (required = detected) when required is true or false and null when
\* required is null.
C12_RequiredAndOk ==
  Reported =>
    LET t == Val(call.task)
        gov == engine.capsule.governance
    IN /\ IsSome(t.requiresEscalation) => Escalation.required = t.requiresEscalation
       /\ ~IsSome(t.requiresEscalation) =>
            /\ (t.risk = Some("HIGH") /\ IsSome(gov)
                /\ IsSome(Val(gov).requiredForHighRisk))
                 => Escalation.required = Val(gov).requiredForHighRisk
            /\ t.risk = Some("LOW") => Escalation.required = Some(FALSE)
            /\ t.risk \in {Some("MEDIUM"), None} => Escalation.required = None
       /\ IsSome(Escalation.required) =>
            Escalation.ok = Some(Val(Escalation.required) = Escalation.detected)
       /\ ~IsSome(Escalation.required) => Escalation.ok = None

\* A HIGH-risk task without requiresEscalation under a capsule that requires
\* escalation for HIGH risk, with a trigger detected.
C12_Witness ==
  /\ Reported
  /\ Val(call.task).risk = Some("HIGH")
  /\ ~IsSome(Val(call.task).requiresEscalation)
  /\ IsSome(engine.capsule.governance)
  /\ Val(engine.capsule.governance).requiredForHighRisk = Some(TRUE)
  /\ Escalation.required = Some(TRUE)
  /\ Escalation.detected
  /\ Escalation.ok = Some(TRUE)

Constructed == config # NoConfig

Called == call # NoCall

\* C13: constructing an engine without a capsule raises a TypeError; so does
\* evaluate with a missing task, a task without a non-empty id, an output
\* that is not a string, or an empty output; no report is returned.
C13_TypeErrors ==
  /\ (Constructed
      /\ (~IsSome(config.value) \/ ~IsSome(Val(config.value).capsule)))
       => engine.kind = "TypeError"
  /\ (Called
      /\ (\/ ~IsSome(call.task)
          \/ Val(call.task).id = ""
          \/ ~IsString(call.output)
          \/ call.output = Str(<< >>)))
       => outcome.kind = "TypeError"

\* A call with a task whose id is empty and a valid output, answered by a
\* TypeError.
C13_Witness ==
  /\ Called
  /\ IsSome(call.task)
  /\ Val(call.task).id = ""
  /\ IsString(call.output)
  /\ call.output # Str(<< >>)
  /\ outcome.kind = "TypeError"

\* The entry checks of evaluate pass.
EntryChecksPass ==
  /\ Called
  /\ IsSome(call.task)
  /\ Val(call.task).id # ""
  /\ IsString(call.output)
  /\ call.output # Str(<< >>)

\* C14: every error of evaluate is raised by its entry checks, before any
\* analyzer has run; once the task id and the output have passed them,
\* evaluate returns a report for every baseline and every drift lexicon.
C14_NoErrorAfterEntry ==
  Called =>
    /\ ~Reported => outcome.thrownBy = "GovernanceEngine.evaluate"
    /\ EntryChecksPass => Reported

\* C15: a capsule that lacks the governance block is rejected at construction
\* or at the start of evaluate; no report is produced for it.
C15_CapsuleValidated ==
  /\ (Constructed /\ engine.kind = "engine") => IsSome(engine.capsule.governance)
  /\ Reported => IsSome(engine.capsule.governance)

\* The constructor was called with a capsule.
ConstructedWithCapsule ==
  Constructed /\ IsSome(config.value) /\ IsSome(Val(config.value).capsule)

\* The weights and the compliance threshold of the configuration, None when
\* they are not provided.
ProvidedWeights ==
  IF IsSome(Val(config.value).thresholds)
  THEN Val(Val(config.value).thresholds).weights ELSE None

ProvidedThreshold ==
  IF IsSome(Val(config.value).thresholds)
  THEN Val(Val(config.value).thresholds).compliance ELSE None

\* The sum of the provided weights is farther than 0.001 from 1.0.
SumOutOfTolerance ==
  LET w == Val(ProvidedWeights)
      sum == w.headers + w.drift + w.retry + w.escalation
  IN sum > 1001 \/ sum < 999

C17_ThresholdRange ==
  (ConstructedWithCapsule /\ ~(IsSome(ProvidedWeights) /\ SumOutOfTolerance)) =>
    /\ (IsSome(ProvidedThreshold) /\ Val(ProvidedThreshold) \notin 0..100)
         => engine.kind = "Error"
    /\ (IsSome(ProvidedThreshold) /\ Val(ProvidedThreshold) \in 0..100)
         => /\ engine.kind = "engine"
            /\ engine.threshold = Val(ProvidedThreshold)
            /\ Reported => outcome.verdict.threshold = Val(ProvidedThreshold)
    /\ ~IsSome(ProvidedThreshold)
         => /\ engine.kind = "engine"
            /\ engine.threshold = 80

\* C18: the engine keeps no hidden state: the outcome of every call of a
\* sequence of calls on one engine is the outcome a freshly constructed
\* engine of the same configuration gives for the inputs of that call.
C18_NoHiddenState ==
  Called =>
    outcome = Evaluate(Constructor(config.value), call.task, call.output, call.baseline)

\* The report of a second call on an engine with custom weights.
C18_Witness ==
  /\ calls = 2
  /\ Reported
  /\ IsSome(outcome.metadata.weights)
  /\ IsSome(outcome.deltas)

\* C19: a call of evaluate, returning or throwing, leaves the task (its drift
\* lexicon included), the capsule, the weights and the threshold as they
\* were before the call.
C19_NoMutation ==
  [][(call = NoCall /\ call' # NoCall) =>
       \A t \in TaskChoices :
         EvaluateCall(t, call'.output, call'.baseline) =>
           /\ call'.task = t
           /\ engine'.capsule = engine.capsule
           /\ engine'.weights = engine.weights
           /\ engine'.threshold = engine.threshold
           /\ config' = config]_vars

\* A call with a task that has a drift lexicon, on an engine with custom
\* weights.
C19_Witness ==
  /\ Called
  /\ IsSome(call.task)
  /\ IsSome(Val(call.task).driftLexicon)
  /\ engine.weights # DEFAULT_WEIGHTS
  /\ Reported

\* The reduction rule: 0 for (0, 0), -100 for (0, g), else
\* round((b - g) / b x 100).
ReductionRule(b, g) ==
  IF b = 0 /\ g = 0 THEN 0
  ELSE IF b = 0 THEN -100
  ELSE RoundDiv((b - g) * 100, b)

\* The drift count of the baseline of the call under the active lexicon of
\* the call, and its retry normalized value.
BaselineDriftCount ==
  DriftDetect(Governance(engine.capsule).driftKeywords, FALSE,
              Val(call.baseline).str, Val(call.task).driftLexicon).count

BaselineRetryNormalized == RetryCompute(Val(call.baseline).str).normalized

\* The deltas follow the reduction rule on the baseline and the analysis.
DeltasFollowRule ==
  /\ IsSome(outcome.deltas)
  /\ Val(outcome.deltas).driftReduction
       = ReductionRule(BaselineDriftCount, outcome.analysis.drift.incidents)
  /\ Val(outcome.deltas).retryReduction
       = ReductionRule(BaselineRetryNormalized,
                       outcome.analysis.retryPressure.normalized)
  /\ Val(outcome.deltas).driftReduction \in Int
  /\ Val(outcome.deltas).retryReduction \in Int

\* C20 as claimed: deltas is null exactly when no baseline is supplied; with
\* a baseline the deltas follow the reduction rule, counted with the active
\* lexicon of analysis.drift.
C20_DeltasIffBaseline ==
  Reported =>
    /\ outcome.deltas = None <=> ~IsSome(call.baseline)
    /\ IsSome(call.baseline) => DeltasFollowRule

\* C20 amended: deltas is null exactly when no baseline is supplied or the
\* baseline is the empty string; with a non-empty baseline the deltas follow
\* the reduction rule, counted with the active lexicon of analysis.drift.
C20_DeltasIffNonEmptyBaseline ==
  Reported =>
    /\ outcome.deltas = None
         <=> (~IsSome(call.baseline) \/ call.baseline = Some(Str(<< >>)))
    /\ (IsSome(call.baseline) /\ call.baseline # Some(Str(<< >>)))
         => DeltasFollowRule

\* A report with a baseline, of a task with its own drift lexicon, whose
\* drift reduction differs from the one the capsule keywords give.
C20_Witness ==
  /\ Reported
  /\ IsSome(call.baseline)
  /\ IsSome(Val(call.task).driftLexicon)
  /\ IsSome(outcome.deltas)
  /\ BaselineDriftCount = 0
  /\ outcome.analysis.drift.incidents > 0
  /\ Val(outcome.deltas).driftReduction = -100
  /\ Val(outcome.deltas).retryReduction > 0

\* C21: the reserved violation codes HEADER_SCHEMA_EXTRA, SPS_RISKY_OPERATION
\* and RETRY_PRESSURE_HIGH are in the violations of no report, and
\* analysis.headers.extra is the empty array in every report.
ReservedCodes == {"HEADER_SCHEMA_EXTRA", "SPS_RISKY_OPERATION", "RETRY_PRESSURE_HIGH"}

C21_ReservedCodesUnused ==
  Reported =>
    /\ \A i \in 1..Len(Violations) : Violations[i].code \notin ReservedCodes
    /\ outcome.analysis.headers.extra = << >>

\* A report with violations on an output with retry signals, a drift incident
\* and a missing header: what the reserved codes would stand for is present.
C21_Witness ==
  /\ Reported
  /\ Len(outcome.analysis.retryPressure.signals) > 0
  /\ Len(outcome.analysis.headers.missing) > 0
  /\ outcome.analysis.drift.incidents >= 1
  /\ Len(Violations) >= 1

\* C22: when retryPressure.signals is empty and escalation.ok = false, the
\* matched triggers add nothing to the heuristic count, which is 2 (drift and
\* retry), so the confidence is that of 1 structural and 2 heuristic signals
\* whatever the number of matched triggers (0.67 as the heuristic share, 0.33
\* as the structural share).
C22_TriggersExcludedWhenNotOk ==
  (/\ Reported
   /\ Len(outcome.analysis.retryPressure.signals) = 0
   /\ Escalation.ok = Some(FALSE))
  => outcome.verdict.confidence \in {RoundDiv(2 * 100, 1 + 2), RoundDiv(1 * 100, 1 + 2)}

\* C30: every HEADER_SCHEMA_MISSING violation names a missing header: its
\* evidence is not empty and analysis.headers.coverage is below 1; a capsule
\* that requires no headers never produces the violation.
C30_MissingHeaderNamed ==
  (/\ Reported
   /\ IsSome(engine.capsule.governance)
   /\ HasCode(Violations, "HEADER_SCHEMA_MISSING"))
  => /\ Len(ViolationOf("HEADER_SCHEMA_MISSING").evidence) > 0
     /\ outcome.analysis.headers.coverage < 100
     /\ Len(Val(engine.capsule.governance).requiredHeaders) > 0

(***************************************************************************)
(* The validators called on their own, as their unit tests call them: the  *)
(* arguments of one call are drawn at the start, the call is then applied. *)
(***************************************************************************)

MaxCount == 201
MaxWords == 3

\* The sequences of at most n elements of items.
RECURSIVE SeqsUpTo(_, _)
SeqsUpTo(items, n) ==
  IF n = 0 THEN { << >> }
  ELSE LET shorter == SeqsUpTo(items, n - 1)
       IN shorter \cup {Append(q, x) : q \in shorter, x \in items}

\* computeReduction(baseline, governed) on two counts.
ReductionCalls ==
  {[kind |-> "computeReduction", baseline |-> b, governed |-> g] : b, g \in 0..MaxCount}

\* The words of the outputs given to RetryPressure.compute, and two openings:
\* the empty one and one with four placeholders of different spelling.
RetryWords == {"TODO", "todo", "TBD", "maybe", "unclear", "Plan"}

RetryOpenings == { << >>, <<"TODO", "tbd", "FIXME", "fixme">> }

\* new RetryPressure().compute(output)
ComputeCalls ==
  {[kind |-> "compute", output |-> opening \o rest] :
     opening \in RetryOpenings, rest \in SeqsUpTo(RetryWords, MaxWords)}

\* The required lists given to the HeaderChecker constructor: the short ones
\* and one of eight headers, and the words of the outputs given to validate.
HeaderNames == { <<"Plan">>, <<"plan">>, <<"Gates">> }

EightHeaders ==
  << <<"Plan">>, <<"Gates">>, <<"Gates">>, <<"Gates">>,
     <<"Gates">>, <<"Gates">>, <<"Gates">>, <<"Gates">> >>

RequiredChoices == SeqsUpTo(HeaderNames, MaxWords) \cup {EightHeaders}

HeaderWords == {"Plan", "plan", "Gates", ":"}

\* new HeaderChecker({required, strict, caseSensitive}).validate(output)
ValidateCalls ==
  {[kind |-> "validate", required |-> required, strict |-> strict,
    caseSensitive |-> caseSensitive, output |-> output] :
     required \in RequiredChoices, strict \in BOOLEAN, caseSensitive \in BOOLEAN,
     output \in SeqsUpTo(HeaderWords, MaxWords)}

UnitCalls == ReductionCalls \cup ComputeCalls \cup ValidateCalls

UnitInit ==
  /\ config = NoConfig
  /\ engine = NoEngine
  /\ calls = 0
  /\ call \in UnitCalls
  /\ outcome = NoOutcome

ComputeReductionApply ==
  /\ call.kind = "computeReduction"
  /\ outcome = NoOutcome
  /\ outcome' = [kind |-> "result", value |-> ComputeReduction(call.baseline, call.governed)]
  /\ UNCHANGED <<config, engine, calls, call>>

RetryComputeApply ==
  /\ call.kind = "compute"
  /\ outcome = NoOutcome
  /\ outcome' = [kind |-> "result", value |-> RetryCompute(call.output)]
  /\ UNCHANGED <<config, engine, calls, call>>

ValidateApply ==
  /\ call.kind = "validate"
  /\ outcome = NoOutcome
  /\ outcome' = [kind |-> "result",
                 value |-> HeaderValidate(call.required, call.strict,
                                          call.caseSensitive, call.output)]
  /\ UNCHANGED <<config, engine, calls, call>>

UnitNext ==
  \/ ComputeReductionApply
  \/ RetryComputeApply
  \/ ValidateApply

UnitSpec == UnitInit /\ [][UnitNext]_vars

\* The call of the given kind has returned.
Returned(kind) == call.kind = kind /\ outcome.kind = "result"

UncertaintyCount(output) ==
  Cardinality({n \in 1..Len(uncertaintyPhrases) :
                 Includes(ToLowerCase(output), uncertaintyPhrases[n])})

\* The words of the output a placeholder pattern matches.
IsPlaceholder(w) == \E n \in 1..Len(placeholderPatterns) : LowerWord(w) = placeholderPatterns[n]

\* The textual matches of the placeholder patterns in the output.
PlaceholderMatchCount(output) == Len(SelectSeq(output, IsPlaceholder))

\* The different spellings among the placeholder matches of the output.
PlaceholderSpellings(output) == {output[i] : i \in {j \in 1..Len(output) : IsPlaceholder(output[j])}}

\* C24: every textual match of a placeholder pattern adds 1 to todoCount, also
\* when several matches have the same spelling, and every uncertainty phrase
\* that occurs adds 1 once: normalized = min(0.1 x phrases + 0.2 x matches, 1.0),
\* and min(0.2 x matches, 1.0) when no uncertainty phrase occurs.
C24_EveryPlaceholderMatchCounts ==
  Returned("compute") =>
    outcome.value.normalized =
      Min2(10 * UncertaintyCount(call.output) + 20 * PlaceholderMatchCount(call.output), 100)

\* C25: compute returns normalized = min(0.1 x uncertaintyCount + 0.2 x
\* todoCount, 1.0) within [0, 1] and score = 100 - round(100 x normalized)
\* within [0, 100]; normalized is exactly 1.0 and score 0 once the weighted
\* count reaches 1.0; signals is empty exactly when normalized = 0 and
\* score = 100.  todoCount is the count compute keeps: one per spelling.
C25_RetryFormula ==
  Returned("compute") =>
    LET weighted == 10 * UncertaintyCount(call.output)
                      + 20 * Cardinality(PlaceholderSpellings(call.output))
        r == outcome.value
    IN /\ r.normalized = Min2(weighted, 100)
       /\ r.normalized \in 0..100
       /\ r.score = 100 - r.normalized
       /\ r.score \in 0..100
       /\ weighted >= 100 => (r.normalized = 100 /\ r.score = 0)
       /\ (r.signals = << >>) = (r.normalized = 0 /\ r.score = 100)
       /\ (r.signals = << >>) = (r.normalized = 0)

\* A call whose weighted count is above 1.0, and so capped.
C25_Witness ==
  /\ Returned("compute")
  /\ 10 * UncertaintyCount(call.output)
       + 20 * Cardinality(PlaceholderSpellings(call.output)) > 100
  /\ outcome.value.normalized = 100
  /\ outcome.value.score = 0

\* The set of the elements of a sequence.
Range(q) == {q[i] : i \in 1..Len(q)}

\* C28: validate splits the required headers into found and missing, which
\* are disjoint, together hold every required header, and keep the required
\* order; coverage is |found| / |required| x 100 rounded half-up, and 100 for
\* an empty required list; compliant is (missing is empty) in strict mode and
\* (found is non-empty) otherwise.
C28_HeaderPartition ==
  Returned("validate") =>
    LET r == outcome.value
        required == call.required
        InFound(h) == h \in Range(r.found)
        InMissing(h) == h \in Range(r.missing)
    IN /\ Range(r.found) \cap Range(r.missing) = {}
       /\ Range(r.found) \cup Range(r.missing) = Range(required)
       /\ Len(r.found) + Len(r.missing) = Len(required)
       /\ r.found = SelectSeq(required, InFound)
       /\ r.missing = SelectSeq(required, InMissing)
       /\ Len(required) = 0 => r.coverage = 100
       /\ Len(required) > 0 =>
            /\ 2 * (r.coverage * Len(required) - 100 * Len(r.found)) <= Len(required)
            /\ 2 * (100 * Len(r.found) - r.coverage * Len(required)) < Len(required)
       /\ r.compliant = (IF call.strict THEN r.missing = << >> ELSE r.found # << >>)

\* One header of eight found: the coverage 12.5 is rounded up to 13, and the
\* call is compliant in non-strict mode only.
C28_Witness ==
  /\ Returned("validate")
  /\ Len(call.required) = 8
  /\ Len(outcome.value.found) = 1
  /\ Len(outcome.value.missing) = 7
  /\ outcome.value.coverage = 13
  /\ ~call.strict
  /\ outcome.value.compliant

(***************************************************************************)
(* DriftDetector.detect step by step: the for loop over the active lexicon *)
(* and, for each keyword, the while loop over the results of indexOf.      *)
(***************************************************************************)

MaxEntries == 2
MaxMatches == 16

\* The number of UTF-16 code units of a string.
StringLength(ws) ==
  IF ws = << >> THEN 0
  ELSE SeqSum([i \in 1..Len(ws) |-> WordLength(ws[i])]) + Len(ws) - 1

\* String.prototype.indexOf(needle, from), from >= 0: the first index at or
\* after from at which needle occurs, or -1; the empty string occurs at every
\* index up to the length, so indexOf("", from) is min(from, length).
IndexOf(hay, needle, from) ==
  IF needle = << >> THEN Min2(from, StringLength(hay))
  ELSE LET at == {p \in {CharIndex(hay, i) : i \in Occurrences(hay, needle)} : p >= from}
       IN IF at = {} THEN -1
          ELSE CHOOSE p \in at : \A q \in at : p <= q

\* The entries of the keyword lists and lexicons, the empty string among them.
DetectEntries == { << >>, <<"deploy">>, <<"deploy", "deploy">>, <<"FOP">> }

DetectWords == {"deploy", "FOP", "fop"}

\* new DriftDetector({keywords, caseSensitive}).detect(output, {lexicon})
DetectCalls ==
  {[kind |-> "detect", keywords |-> keywords, caseSensitive |-> caseSensitive,
    output |-> output, lexicon |-> lexicon] :
     keywords \in { << >>, << <<"deploy">>, <<"FOP">> >> },
     caseSensitive \in BOOLEAN,
     output \in {Str(ws) : ws \in SeqsUpTo(DetectWords, MaxWords)} \cup {NotAString},
     lexicon \in {None} \cup {Some(l) : l \in SeqsUpTo(DetectEntries, MaxEntries)}}

DetectInit ==
  /\ config = NoConfig
  /\ engine = NoEngine
  /\ calls = 0
  /\ call \in DetectCalls
  /\ outcome = NoOutcome

\* const activeLexicon = options.lexicon ? ... : this.keywords
ActiveLexicon(c) ==
  IF IsSome(c.lexicon)
  THEN (IF c.caseSensitive THEN Val(c.lexicon)
        ELSE [i \in 1..Len(Val(c.lexicon)) |-> ToLowerCase(Val(c.lexicon)[i])])
  ELSE DriftKeywords(c.keywords, c.caseSensitive)

SearchText(c) == IF c.caseSensitive THEN c.output.str ELSE ToLowerCase(c.output.str)

SearchKeyword(c, keyword) == IF c.caseSensitive THEN keyword ELSE ToLowerCase(keyword)

\* Entry of detect: the typeof check, then the empty matches and positions;
\* k is the number of lexicon entries the for loop is done with.
DetectStart ==
  /\ call.kind = "detect"
  /\ outcome = NoOutcome
  /\ outcome' = IF ~IsString(call.output)
                THEN [kind |-> "error", error |-> "Error",
                      message |-> "Output must be a string"]
                ELSE [kind |-> "for", activeLexicon |-> ActiveLexicon(call), k |-> 0,
                      index |-> -1, matches |-> << >>, positions |-> << >>]
  /\ UNCHANGED <<config, engine, calls, call>>

\* The head of the for loop and the first indexOf of the next keyword.
DetectKeyword ==
  /\ outcome.kind = "for"
  /\ outcome.k < Len(outcome.activeLexicon)
  /\ LET keyword == outcome.activeLexicon[outcome.k + 1]
     IN outcome' = [outcome EXCEPT
                      !.kind = "while",
                      !.index = IndexOf(SearchText(call), SearchKeyword(call, keyword), 0)]
  /\ UNCHANGED <<config, engine, calls, call>>

\* The test of the while loop succeeds: index is not -1.
DetectTest ==
  /\ outcome.kind = "while"
  /\ outcome.index # -1
  /\ outcome' = [outcome EXCEPT !.kind = "body"]
  /\ UNCHANGED <<config, engine, calls, call>>

\* matches.push / positions.push: the arrays grow without bound in the
\* source; here they keep their first MaxMatches elements.
Push(array, x) == IF Len(array) < MaxMatches THEN Append(array, x) ELSE array

\* The body of the while loop with the next start one past the end of the
\* match instead of one past its start.
DetectMatchPastTheMatch ==
  /\ outcome.kind = "body"
  /\ LET keyword == outcome.activeLexicon[outcome.k + 1]
     IN outcome' = [outcome EXCEPT
                      !.kind = "while",
                      !.matches = Push(@, keyword),
                      !.positions = Push(@, outcome.index),
                      !.index = IndexOf(SearchText(call), SearchKeyword(call, keyword),
                                        outcome.index + StringLength(keyword) + 1)]
  /\ UNCHANGED <<config, engine, calls, call>>

\* The body of the while loop: one match recorded, the next one looked up.
DetectMatch ==
  /\ outcome.kind = "body"
  /\ LET keyword == outcome.activeLexicon[outcome.k + 1]
     IN outcome' = [outcome EXCEPT
                      !.kind = "while",
                      !.matches = Push(@, keyword),
                      !.positions = Push(@, outcome.index),
                      !.index = IndexOf(SearchText(call), SearchKeyword(call, keyword),
                                        outcome.index + 1)]
  /\ UNCHANGED <<config, engine, calls, call>>

\* The while loop ends: index is -1.
DetectKeywordDone ==
  /\ outcome.kind = "while"
  /\ outcome.index = -1
  /\ outcome' = [outcome EXCEPT !.kind = "for", !.k = @ + 1]
  /\ UNCHANGED <<config, engine, calls, call>>

\* The result with the positions sorted.
DetectReturnSorted ==
  /\ outcome.kind = "for"
  /\ outcome.k = Len(outcome.activeLexicon)
  /\ outcome' = [kind |-> "result",
                 value |-> [count |-> Len(outcome.matches),
                            matches |-> Dedupe(outcome.matches),
                            positions |-> Ascending(Range(outcome.positions))]]
  /\ UNCHANGED <<config, engine, calls, call>>

\* The for loop ends; this.patterns is empty; the result is returned.
DetectReturn ==
  /\ outcome.kind = "for"
  /\ outcome.k = Len(outcome.activeLexicon)
  /\ outcome' = [kind |-> "result",
                 value |-> [count |-> Len(outcome.matches),
                            matches |-> Dedupe(outcome.matches),
                            positions |-> outcome.positions]]
  /\ UNCHANGED <<config, engine, calls, call>>

DetectNext ==
  \/ DetectStart
  \/ DetectKeyword
  \/ DetectTest
  \/ DetectMatch
  \/ DetectKeywordDone
  \/ DetectReturn

DetectSpec == DetectInit /\ [][DetectNext]_vars

\* detect is one synchronous call: once entered it runs on to its return or
\* throw.
DetectLiveSpec == DetectSpec /\ WF_vars(DetectNext)

\* detect has returned its result.
Detected == call.kind = "detect" /\ outcome.kind = "result"

\* The lexicon in force according to the call: the lexicon of the options when
\* there is one, else the constructor keywords; lowercased unless
\* caseSensitive.
LexiconInForce ==
  LET entries == IF IsSome(call.lexicon) THEN Val(call.lexicon) ELSE call.keywords
  IN IF call.caseSensitive THEN entries
     ELSE [i \in 1..Len(entries) |-> ToLowerCase(entries[i])]

\* The start positions (as word numbers) of a lexicon entry in the output of
\* the call.
StartsOf(entry) == Occurrences(SearchText(call), SearchKeyword(call, entry))

\* The start indices of a lexicon entry in the output, ascending.
IndicesOf(entry) == Ascending({CharIndex(call.output.str, i) : i \in StartsOf(entry)})

C29_DetectTerminates == <>(outcome.kind \in {"result", "error"})

====
